---- MODULE Spec2Model ----
(***************************************************************************)
(* State-machine model of the camera configurator of lib-3d-scene-viewer   *)
(* (src/src/camera/camera.ts, class Camera) and of the pieces of the       *)
(* scene manager it is used from.                                          *)
(*                                                                         *)
(* Conventions of the model                                                *)
(*  - A property key is a sequence of tokens: 'alpha' is <<"alpha">> and   *)
(*    'alphaInDegrees' is <<"alpha", "InDegrees">>, so that                *)
(*    key.includes('InDegrees') and key.split('InDegrees')[0] are computed *)
(*    on the key itself.                                                   *)
(*  - A CameraProperty (one entry of a CameraConfig) is the sequence of    *)
(*    its <<key, value>> pairs in JavaScript insertion order.              *)
(*  - Angles in radians are counted in units of pi/360, so that            *)
(*    Tools.ToRadians doubles a number of degrees and Tools.ToDegrees      *)
(*    halves a number of such units.                                       *)
(*  - A Vector3 (x, x, x) is written as the integer x; Vector3.Zero() is 0.*)
(*  - A camera object lives in the heap `cameras`; its identity is its     *)
(*    index, which is what a suspended cycle keeps a reference to.         *)
(***************************************************************************)
EXTENDS Integers, Sequences, FiniteSets, TLC

\* Number of updateCameras calls a behaviour may issue.
MaxCalls == 2
\* The same, in the specification with willAddOrRemoveCameras.
MaxWillCalls == 1
\* The same, in the specification of the longer runs (a camera updated,
\* disabled and created again).
MaxDeepCalls == 3
\* The same, in the specification of the entries with several animatable
\* properties or an undefined limit.
MaxShapeCalls == 2
\* updateConfig calls of SceneManager.
MaxConfigCalls == 2
\* updateCameras calls for one camera name that is updated, disabled, created
\* again and updated once more.
MaxStackCalls == 4
\* In the specification with rendering: the updateCameras calls (the moves of
\* the user and the listeners are bounded by MaxMoves and MaxListeners).
MaxRenderCalls == 2
\* updateCameras calls in the specification with fairness.
MaxLiveCalls == 2

\* Angles given to the animation builder: the multiples of ten degrees up to
\* this many steps either way.
MaxAngleSteps == 40
\* Number of keys of a property bag given to the classifier.
MaxProps == 2
\* Durations given to the last-frame computation, in ticks either way, and the
\* number of ticks in a second (which is the number of parts in a frame).
MaxTicks == 3
TicksPerSecond == 120
\* In the specification with camera interaction: the updateCameras calls, the
\* changes of a view matrix and the registrations of a listener.
MaxInteractCalls == 1
MaxMoves == 3
MaxListeners == 2
\* Number of runRenderLoop and stopRenderLoop calls.
MaxLoopCalls == 8

CAMERA_DEFAULT_NAME == "DefaultCamera"

\* JavaScript null and undefined, as values of a numeric property.
Null == -9999
Undefined == -9998

\* null as a view matrix; a view matrix itself is a non-empty tuple.
NullMatrix == << >>

\* No camera object (scene.activeCamera === null, Map.get(...) === undefined).
NoCamera == 0

(***************************************************************************)
(* Keys                                                                    *)
(***************************************************************************)
K(s) == <<s>>
Deg(s) == <<s, "InDegrees">>

CAMERA_PROPERTIES_TO_IGNORE_DURING_EXTRACTION ==
    << K("attachControl"), K("autoRotationBehavior"), K("cameraAnimationConfig"),
       K("enable"), K("framingBehavior"), K("type"), K("minimizeRotation") >>

ARC_ROTATE_CAMERA_LIMIT_PROPERTIES ==
    << K("lowerAlphaLimit"), K("upperAlphaLimit"), K("lowerBetaLimit"),
       K("upperBetaLimit"), K("lowerRadiusLimit"), K("upperRadiusLimit") >>

\* The own keys of CAMERA_ANIMATION_TYPE_MAP.
CAMERA_ANIMATION_TYPE_MAP ==
    { K("fov"), K("target"), K("alpha"), K("beta"), K("radius") }

\* The property names an object literal inherits from Object.prototype.
ObjectPrototypeKeys ==
    { K("constructor"), K("toString"), K("toLocaleString"), K("valueOf"),
      K("hasOwnProperty"), K("isPrototypeOf"), K("propertyIsEnumerable"),
      K("__proto__") }

\* key in object, for an object literal with the own keys ownKeys.
In(key, ownKeys) == key \in ownKeys \cup ObjectPrototypeKeys

Includes(seq, x) == \E i \in 1..Len(seq) : seq[i] = x

RECURSIVE SplitHead(_, _)
\* key.split(sep)[0]: the tokens before the first occurrence of sep.
SplitHead(key, sep) ==
    IF key = <<>> \/ Head(key) = sep THEN <<>>
    ELSE <<Head(key)>> \o SplitHead(Tail(key), sep)

\* Tools.ToRadians and Tools.ToDegrees, in units of pi/360.
ToRadians(degrees) == degrees * 2
ToDegrees(radians) == radians \div 2

\* Repeat(value, length) of Babylon's scalar functions: value - floor(value/length)*length.
Repeat(value, length) == value - (value \div length) * length

\* DeltaAngle without its step back by a full turn.
DeltaAngleUnwrapped(current, target) == Repeat(target - current, 360)

\* DeltaAngle(current, target), in degrees, in (-180, 180].
DeltaAngle(current, target) ==
    LET num == Repeat(target - current, 360)
    IN  IF num > 180 THEN num - 360 ELSE num

(***************************************************************************)
(* Property bags and maps                                                  *)
(***************************************************************************)
HasKey(prop, k) == \E i \in 1..Len(prop) : prop[i][1] = k
Get(prop, k) == prop[CHOOSE i \in 1..Len(prop) : prop[i][1] = k][2]
\* prop[k] = v: an existing key keeps its place, a new key goes last.
SetKey(prop, k, v) ==
    IF HasKey(prop, k)
    THEN [i \in 1..Len(prop) |-> IF prop[i][1] = k THEN <<k, v>> ELSE prop[i]]
    ELSE Append(prop, <<k, v>>)
\* prop[k] ?? d for a boolean or numeric key.
GetOr(prop, k, d) == IF HasKey(prop, k) THEN Get(prop, k) ELSE d

EmptyMap == <<>>
MapHas(m, k) == k \in DOMAIN m
MapSet(m, k, v) == [x \in (DOMAIN m) \cup {k} |-> IF x = k THEN v ELSE m[x]]
MapDelete(m, k) == [x \in (DOMAIN m) \ {k} |-> m[x]]

(***************************************************************************)
(* State                                                                   *)
(***************************************************************************)
VARIABLES
    cameras,                \* heap of camera objects, by object identity
    sceneCameras,           \* scene.cameras: the scene's camera registry
    activeCamera,           \* scene.activeCamera
    cameraMap,              \* Camera._cameraMap: name -> camera object
    latestUpdateIndexMap,   \* Camera._latestUpdateIndexMap
    firstCameraInteractionMap,          \* Camera._firstCameraInteractionMap
    firstCameraInteractionObserverMap,  \* Camera._firstCameraInteractionObserverMap
    cameraViewMatrixMap,    \* Camera._cameraViewMatrixMap
    running,                \* calls whose animatable the scene is still playing
    nextObserver,           \* identity of the next Observer object
    calls,                  \* the updateCameras invocations, in call order
    disposed,               \* Camera.dispose() has been called
    lastWill,               \* result of the last willAddOrRemoveCameras call
    hist,                   \* history of the run, read by the properties only
    interaction,            \* ObservableManager.onCameraFirstInteractionObservable
    loop,                   \* SceneManager's render loop and the engine's loops
    pure                    \* the last application of a helper to given inputs

vars == << cameras, sceneCameras, activeCamera, cameraMap, latestUpdateIndexMap,
           firstCameraInteractionMap, firstCameraInteractionObserverMap,
           cameraViewMatrixMap, running, nextObserver, calls, disposed,
           lastWill, hist, interaction, loop, pure >>

\* What the operations of Camera leave alone.
outside == << interaction, loop, pure >>

(***************************************************************************)
(* The camera objects and the scene (the engine's side of the calls)       *)
(***************************************************************************)
\* new ArcRotateCamera(name, 0, 0, 1, Vector3.Zero(), scene): alpha 0, beta 0,
\* radius 1, target zero; the other fields are the engine's defaults
\* (fov 0.8 rad, lowerBetaLimit 0.01 rad, upperBetaLimit pi - 0.01 rad, minZ 1).
\* The constructor computes the view matrix of that pose.
NewArcRotateCamera(name) ==
    [ name |-> name,
      isDisposed |-> FALSE,
      p |-> ( K("alpha") :> 0 @@ K("beta") :> 0 @@ K("radius") :> 1 @@
              K("target") :> 0 @@ K("fov") :> 92 @@ K("minZ") :> 1 @@
              K("lowerAlphaLimit") :> Null @@ K("upperAlphaLimit") :> Null @@
              K("lowerBetaLimit") :> 1 @@ K("upperBetaLimit") :> 359 @@
              K("lowerRadiusLimit") :> Null @@ K("upperRadiusLimit") :> Null ),
      animations |-> <<>>,
      attached |-> FALSE,
      useAutoRotationBehavior |-> FALSE,
      autoRotationBehavior |-> <<>>,
      useFramingBehavior |-> FALSE,
      framingBehavior |-> <<>>,
      overrideCloneAlphaBetaRadius |-> FALSE,
      computedViewMatrix |-> << 0, 0, 1, 0 >>,
      observers |-> {} ]

\* camera[key], undefined when the object has no such property.
CamGet(cam, key) == IF key \in DOMAIN cam.p THEN cam.p[key] ELSE Undefined
\* camera[key] = value
CamSet(cam, key, value) == [cam EXCEPT !.p = MapSet(cam.p, key, value)]

SeqRemove(seq, x) == SelectSeq(seq, LAMBDA y : y # x)

\* The world a synchronous stretch of code reads and writes.
World ==
    [ cameras |-> cameras, sceneCameras |-> sceneCameras,
      activeCamera |-> activeCamera, cameraMap |-> cameraMap,
      latestUpdateIndexMap |-> latestUpdateIndexMap,
      firstCameraInteractionMap |-> firstCameraInteractionMap,
      firstCameraInteractionObserverMap |-> firstCameraInteractionObserverMap,
      cameraViewMatrixMap |-> cameraViewMatrixMap,
      running |-> running, nextObserver |-> nextObserver, hist |-> hist ]

\* The constructor of a camera adds it to the scene and makes it the active
\* camera when the scene has none.
SceneAddCamera(w, cam) ==
    LET id == Len(w.cameras) + 1
    IN  [w EXCEPT !.cameras = Append(@, cam),
                  !.sceneCameras = Append(@, id),
                  !.activeCamera = IF @ = NoCamera THEN id ELSE @]

\* scene.removeCamera(camera): out of the registry; the first camera left, if
\* any, becomes the active camera when the removed one was.
SceneRemoveCamera(w, id) ==
    LET rest == SeqRemove(w.sceneCameras, id)
    IN  [w EXCEPT !.sceneCameras = rest,
                  !.activeCamera = IF @ = id
                                   THEN (IF rest = <<>> THEN NoCamera ELSE rest[1])
                                   ELSE @]

\* The calls whose animatable is playing on camera object id.
PlayingOn(w, cs, id) == { c \in w.running : cs[c].cam = id }

\* scene.stopAnimation(camera, name) for every animation of the camera: the
\* animatables on the camera end, and their waitAsync() promises resolve.
SceneStopAnimations(w, cs, id) ==
    [w EXCEPT !.running = @ \ PlayingOn(w, cs, id)]

\* camera.dispose(): animations stopped, out of the scene, observers cleared.
CameraDispose(w, cs, id) ==
    [SceneRemoveCamera(SceneStopAnimations(w, cs, id), id)
       EXCEPT !.cameras[id].isDisposed = TRUE,
              !.cameras[id].observers = {}]

(***************************************************************************)
(* Camera: the private helpers                                             *)
(***************************************************************************)
\* _removeCamera removing nothing.
RemoveCameraNever(w, cs, cameraName) == w

\* Camera._removeCamera
RemoveCamera(w, cs, cameraName) ==
    IF MapHas(w.cameraMap, cameraName)
    THEN CameraDispose(
           [SceneRemoveCamera(w, w.cameraMap[cameraName]) EXCEPT
              !.cameraMap = MapDelete(@, cameraName),
              !.latestUpdateIndexMap = MapDelete(@, cameraName),
              !.firstCameraInteractionMap = MapDelete(@, cameraName),
              !.cameraViewMatrixMap = MapDelete(@, cameraName)],
           cs, w.cameraMap[cameraName])
    ELSE w

\* Camera._createCamera (the caller has checked the type): the new camera
\* becomes the active camera and gets its per-name records.
CreateCamera(w, cameraName) ==
    [SceneAddCamera(w, NewArcRotateCamera(cameraName)) EXCEPT
           !.activeCamera = Len(w.cameras) + 1,
           !.cameraMap = MapSet(@, cameraName, Len(w.cameras) + 1),
           !.latestUpdateIndexMap = MapSet(@, cameraName, 0),
           !.firstCameraInteractionMap = MapSet(@, cameraName, FALSE),
           !.cameraViewMatrixMap = MapSet(@, cameraName, NullMatrix),
           !.hist.created = @ \cup {Len(w.cameras) + 1}]

\* Camera._convertDegreesToRadians
ConvertDegreesToRadians(key, value) ==
    << SplitHead(key, "InDegrees"), ToRadians(value) >>

RECURSIVE ExtractFrom(_, _, _)
ExtractFrom(cameraProperty, i, acc) ==
    IF i > Len(cameraProperty) THEN acc
    ELSE
      LET cameraConfigKey == cameraProperty[i][1]
          raw == cameraProperty[i][2]
          kv == IF Includes(cameraConfigKey, "InDegrees")
                THEN ConvertDegreesToRadians(cameraConfigKey, raw)
                ELSE << cameraConfigKey, raw >>
          key == kv[1]
          value == kv[2]
      IN  IF Includes(CAMERA_PROPERTIES_TO_IGNORE_DURING_EXTRACTION, cameraConfigKey)
          THEN ExtractFrom(cameraProperty, i + 1, acc)
          ELSE IF key = K("target")
          THEN ExtractFrom(cameraProperty, i + 1,
                 [acc EXCEPT !.specialAnimatableValuesToUpdate = SetKey(@, key, value)])
          ELSE IF In(key, CAMERA_ANIMATION_TYPE_MAP)
          THEN ExtractFrom(cameraProperty, i + 1,
                 [acc EXCEPT !.animatableValuesToUpdate = SetKey(@, key, value)])
          ELSE ExtractFrom(cameraProperty, i + 1,
                 [acc EXCEPT !.nonAnimatableValuesToUpdate = SetKey(@, key, value)])

\* Camera._extractConfigProperties
ExtractConfigProperties(cameraProperty) ==
    ExtractFrom(cameraProperty, 1,
                [ animatableValuesToUpdate |-> <<>>,
                  specialAnimatableValuesToUpdate |-> <<>>,
                  nonAnimatableValuesToUpdate |-> <<>> ])

DEFAULT_CAMERA_ANIMATION_CONFIG ==
    [ easingMode |-> "EASINGMODE_EASEINOUT",
      loopMode |-> "ANIMATIONLOOPMODE_CONSTANT",
      maxFPS |-> 60 ]

IsNumber(v) == v # Null /\ v # Undefined

\* The end keyframe's value with the configured value added to the start value.
EndValueAdditive(key, value, startVal, minimizeRotation) ==
    IF minimizeRotation /\ IsNumber(value) /\ key \in { K("alpha"), K("beta") }
    THEN startVal + value
    ELSE value

\* The end keyframe's value (lines 381-393).
EndValue(key, value, startVal, minimizeRotation) ==
    IF minimizeRotation /\ IsNumber(value) /\ key \in { K("alpha"), K("beta") }
    THEN startVal + ToRadians(DeltaAngle(ToDegrees(startVal), ToDegrees(value)))
    ELSE value

\* _createArcRotateCameraAnimation with its two keys in the wrong order.
CreateAnimationKeysSwapped(key, value, lastFrame, camera, cameraAnimationConfig, minimizeRotation) ==
    LET startVal == CamGet(camera, key)
        endVal == EndValue(key, value, startVal, minimizeRotation)
    IN  [ targetProperty |-> key,
          framePerSecond |-> cameraAnimationConfig.maxFPS,
          loopMode |-> cameraAnimationConfig.loopMode,
          easingMode |-> cameraAnimationConfig.easingMode,
          keys |-> << [frame |-> 0, value |-> endVal],
                      [frame |-> lastFrame, value |-> startVal] >> ]

\* Camera._createArcRotateCameraAnimation
CreateArcRotateCameraAnimation(key, value, lastFrame, camera, cameraAnimationConfig, minimizeRotation) ==
    LET startVal == CamGet(camera, key)
        endVal == EndValue(key, value, startVal, minimizeRotation)
    IN  [ targetProperty |-> key,
          framePerSecond |-> cameraAnimationConfig.maxFPS,
          loopMode |-> cameraAnimationConfig.loopMode,
          easingMode |-> cameraAnimationConfig.easingMode,
          keys |-> << [frame |-> 0, value |-> startVal],
                      [frame |-> lastFrame, value |-> endVal] >> ]

\* The last frame of a cycle (line 224), for a duration counted in parts of a
\* second and a last frame counted in as many parts of a frame.
LastFrameIn(parts, animationDuration) ==
    IF animationDuration > 0 THEN animationDuration * 60 ELSE parts

\* The last frame of a cycle (line 224), for whole seconds and frames.
LastFrame(animationDuration) == LastFrameIn(1, animationDuration)

\* value ?? fallback
Coalesce(value, fallback) == IF value \in { Null, Undefined } THEN fallback ELSE value

(***************************************************************************)
(* Camera._updateArcRotateCamera                                           *)
(***************************************************************************)
\* Lines 170-202: attach or detach control, auto-rotation and framing blocks.
ApplyControlAndBehaviors(cam, cameraProperty) ==
    LET c1 == [cam EXCEPT !.attached = GetOr(cameraProperty, K("attachControl"), TRUE)]
        c2 == IF HasKey(cameraProperty, K("autoRotationBehavior"))
              THEN LET b == Get(cameraProperty, K("autoRotationBehavior"))
                       on == GetOr(b, K("enabled"), FALSE)
                   IN  [c1 EXCEPT
                          !.useAutoRotationBehavior = on,
                          !.autoRotationBehavior =
                             IF on
                             THEN [ idleRotationSpeed |-> GetOr(b, K("idleRotationSpeed"), 1),
                                    idleRotationWaitTime |-> GetOr(b, K("idleRotationWaitTime"), 100),
                                    idleRotationSpinupTime |-> GetOr(b, K("idleRotationSpinupTime"), 100),
                                    zoomStopsAnimation |-> GetOr(b, K("zoomStopsAnimation"), FALSE) ]
                             ELSE <<>>]
              ELSE c1
    IN  IF HasKey(cameraProperty, K("framingBehavior"))
        THEN LET f == Get(cameraProperty, K("framingBehavior"))
                 on == GetOr(f, K("enabled"), FALSE)
             IN  [c2 EXCEPT
                    !.useFramingBehavior = on,
                    !.framingBehavior =
                       IF on
                       THEN [ elevationReturnTime |-> -1,
                              framingTime |-> GetOr(f, K("framingTime"), 0),
                              radiusScale |-> GetOr(f, K("radiusScale"), 1),
                              autoCorrectCameraLimitsAndSensibility |-> TRUE ]
                       ELSE <<>>,
                    !.overrideCloneAlphaBetaRadius = on]
        ELSE c2

RECURSIVE SetAll(_, _, _)
\* camera[k] = v for the pairs of kvs from the i-th on, in order; an undefined
\* value is skipped when skipUndefined.
SetAll(cam, kvs, skipUndefined) ==
    IF kvs = <<>> THEN cam
    ELSE IF skipUndefined /\ Head(kvs)[2] = Undefined
         THEN SetAll(cam, Tail(kvs), skipUndefined)
         ELSE SetAll(CamSet(cam, Head(kvs)[1], Head(kvs)[2]), Tail(kvs), skipUndefined)

\* Lines 257-264: the limits as they are, saved for the end of the cycle.
SaveLimits(cam) ==
    [ i \in 1..Len(ARC_ROTATE_CAMERA_LIMIT_PROPERTIES) |->
        << ARC_ROTATE_CAMERA_LIMIT_PROPERTIES[i],
           CamGet(cam, ARC_ROTATE_CAMERA_LIMIT_PROPERTIES[i]) >> ]
ClearLimits(cam) ==
    SetAll(cam, [ i \in 1..Len(ARC_ROTATE_CAMERA_LIMIT_PROPERTIES) |->
                    << ARC_ROTATE_CAMERA_LIMIT_PROPERTIES[i], Null >> ], FALSE)

\* Lines 226-253 with push in the place of unshift: the target's animation last.
BuildAnimationsTargetLast(cam, ex, lastFrame, cameraAnimationConfig, minimizeRotation) ==
    LET a == ex.animatableValuesToUpdate
        rest == [ i \in 1..Len(a) |->
                    CreateArcRotateCameraAnimation(a[i][1], a[i][2], lastFrame, cam,
                                                   cameraAnimationConfig, minimizeRotation) ]
        given == GetOr(ex.specialAnimatableValuesToUpdate, K("target"), Undefined)
        target == IF IsNumber(given) THEN given ELSE 0
    IN  rest \o
        << CreateArcRotateCameraAnimation(K("target"), target, lastFrame, cam,
                                          cameraAnimationConfig, minimizeRotation) >>

\* Lines 226-253: one animation per animatable value, the target's in front.
BuildAnimations(cam, ex, lastFrame, cameraAnimationConfig, minimizeRotation) ==
    LET a == ex.animatableValuesToUpdate
        rest == [ i \in 1..Len(a) |->
                    CreateArcRotateCameraAnimation(a[i][1], a[i][2], lastFrame, cam,
                                                   cameraAnimationConfig, minimizeRotation) ]
        given == GetOr(ex.specialAnimatableValuesToUpdate, K("target"), Undefined)
        target == IF IsNumber(given) THEN given ELSE 0
    IN  << CreateArcRotateCameraAnimation(K("target"), target, lastFrame, cam,
                                          cameraAnimationConfig, minimizeRotation) >>
        \o rest

\* Lines 277-280 taking the first key of each animation instead of the last.
ApplyFirstKeys(cam, anims) ==
    SetAll(cam, [ i \in 1..Len(anims) |->
                    << anims[i].targetProperty, anims[i].keys[1].value >> ], FALSE)

\* Lines 277-280: each animation's last key on the camera, in list order.
ApplyLastKeys(cam, anims) ==
    SetAll(cam, [ i \in 1..Len(anims) |->
                    << anims[i].targetProperty,
                       anims[i].keys[Len(anims[i].keys)].value >> ], FALSE)

RECURSIVE MergeInto(_, _)
\* { ...obj, ...Object.fromEntries(kvs) }
MergeInto(obj, kvs) ==
    IF kvs = <<>> THEN obj
    ELSE MergeInto(SetKey(obj, Head(kvs)[1], Head(kvs)[2]), Tail(kvs))

\* The guard of line 285 left out.
IsCurrentUnguarded(updateIndexAtStart, indexMap, cameraName) == TRUE

\* Line 285: no later update of that name has begun.
IsCurrent(updateIndexAtStart, indexMap, cameraName) ==
    MapHas(indexMap, cameraName) /\ updateIndexAtStart = indexMap[cameraName]

NoLocal == [ cam |-> NoCamera ]

Count(m, k) == IF MapHas(m, k) THEN m[k] ELSE 0

\* Lines 301-313: a first-interaction observer is added to the camera and
\* kept as the name's observer, unless the name's flag is set.
RegisterObserver(w, id, cameraName, register) ==
    IF register
    THEN [w EXCEPT
            !.cameras[id].observers = @ \cup {w.nextObserver},
            !.firstCameraInteractionObserverMap = MapSet(@, cameraName, w.nextObserver),
            !.nextObserver = @ + 1]
    ELSE w

\* Lines 286-299: the animation list cleared, then the saved limits and the
\* non-animatable values, the latter over the former, on the camera.
RestoreAndApply(cam, L) ==
    SetAll([cam EXCEPT !.animations = <<>>],
           MergeInto(L.oldCameraLimits, L.nonAnimatableValuesToUpdate), TRUE)

\* Lines 283-314: what a cycle does once its values are on the camera.
PostAnimation(w, L) ==
    IF IsCurrent(L.updateIndexAtStart, w.latestUpdateIndexMap, L.name)
    THEN RegisterObserver(
           [w EXCEPT
              !.cameras[L.cam] = RestoreAndApply(@, L),
              !.hist.stalePost = @ \/ (w.hist.processed[L.name] # L.processedAtStart),
              !.hist.posts = @ + 1],
           L.cam, L.name,
           ~(MapHas(w.firstCameraInteractionMap, L.name)
             /\ w.firstCameraInteractionMap[L.name]))
    ELSE w

CycleResult(w, cameraProperty, awaiting, L) ==
    [ w |-> w, prop |-> cameraProperty, awaiting |-> awaiting, local |-> L ]

\* The end of a cycle without playback, as the history keeps it.
DirectResult(wEnd, cameraProperty, L) ==
    CycleResult([wEnd EXCEPT !.hist.built.after = wEnd.cameras[L.cam].p],
                cameraProperty, FALSE, L)

\* Lines 271-314: the playback begun and awaited, or the last keys on the
\* camera and the post-animation step at once.
PlayOrApply(w, c, cam, cameraProperty, L, built, animationDuration) ==
    IF animationDuration > 0
    THEN CycleResult([w EXCEPT !.cameras[L.cam] = cam,
                               !.running = @ \cup {c},
                               !.hist.playbacks = @ + 1,
                               !.hist.built = [built EXCEPT !.playbacks = 1]],
                     cameraProperty, TRUE, L)
    ELSE DirectResult(PostAnimation([w EXCEPT !.cameras[L.cam] = ApplyLastKeys(cam, L.anims),
                                              !.hist.built = built], L),
                      cameraProperty, L)

\* Lines 266-269: the name's registered observer off the camera.
RemoveOldObserver(cam, observerMap, cameraName) ==
    IF MapHas(observerMap, cameraName)
    THEN [cam EXCEPT !.observers = @ \ {observerMap[cameraName]}]
    ELSE cam

\* Lines 241-281: the cycle once its animations are built.
WithAnimations(w, c, id, cameraName, cameraProperty, before, cam, updateIndexAtStart, nonAnimatableValuesToUpdate, anims, animationDuration) ==
    PlayOrApply(w, c,
                RemoveOldObserver(ClearLimits([cam EXCEPT !.animations = anims]),
                                  w.firstCameraInteractionObserverMap, cameraName),
                cameraProperty,
                [ cam |-> id, name |-> cameraName,
                  updateIndexAtStart |-> updateIndexAtStart,
                  oldCameraLimits |-> SaveLimits(cam),
                  nonAnimatableValuesToUpdate |-> nonAnimatableValuesToUpdate,
                  anims |-> anims,
                  processedAtStart |-> w.hist.processed[cameraName] ],
                [ name |-> cameraName, cam |-> id, prop |-> cameraProperty,
                  before |-> before.p, anims |-> anims,
                  lastFrame |-> LastFrame(animationDuration),
                  direct |-> ~(animationDuration > 0), after |-> <<>>,
                  playbacks |-> 0 ],
                animationDuration)

\* Lines 215-253: the values classified and the animations built.
WithExtracted(w, c, id, cameraName, cameraProperty, before, cam, updateIndexAtStart, ex, animationDuration) ==
    WithAnimations(w, c, id, cameraName, cameraProperty, before, cam, updateIndexAtStart,
                   ex.nonAnimatableValuesToUpdate,
                   BuildAnimations(cam, ex, LastFrame(animationDuration),
                                   GetOr(cameraProperty, K("cameraAnimationConfig"),
                                         DEFAULT_CAMERA_ANIMATION_CONFIG),
                                   GetOr(cameraProperty, K("minimizeRotation"), FALSE)),
                   animationDuration)

\* Lines 204-213: the generation counter bumped and read, the camera's
\* animations stopped.
BeginCycle(w, cs, cameraName, id, updateIndexAtStart) ==
    SceneStopAnimations(
      [w EXCEPT
         !.latestUpdateIndexMap = MapSet(@, cameraName, updateIndexAtStart),
         !.hist.cyclesBegun = MapSet(@, cameraName, Count(@, cameraName) + 1)],
      cs, id)

\* Lines 168-281 on the camera object id of the name.
OnCamera(w, cs, c, cameraName, cameraProperty, id) ==
    WithExtracted(BeginCycle(w, cs, cameraName, id, w.latestUpdateIndexMap[cameraName] + 1),
                  c, id, cameraName, cameraProperty, w.cameras[id],
                  [ApplyControlAndBehaviors(w.cameras[id], cameraProperty)
                     EXCEPT !.animations = <<>>],
                  w.latestUpdateIndexMap[cameraName] + 1,
                  ExtractConfigProperties(cameraProperty),
                  GetOr(cameraProperty, K("animationDuration"), 0))

\* Lines 163-167: the name's camera, created when the name has none.
GetOrCreate(w, cameraName) ==
    IF MapHas(w.cameraMap, cameraName) THEN w ELSE CreateCamera(w, cameraName)

\* Lines 157-281 with enable resolved.
Resolved(w, cs, c, cameraProperty, cameraName, enable) ==
    IF ~enable
    THEN CycleResult(RemoveCamera(w, cs, cameraName), cameraProperty, FALSE, NoLocal)
    ELSE OnCamera(w, cs, c, cameraName, cameraProperty, w.cameraMap[cameraName])

\* Lines 155-281 of one cycle, up to the await of the playback or, without a
\* playback, to the end of the cycle (lines 283-314 included).
\* c is the call the cycle belongs to, cs the calls so far.
UpdateArcRotateCamera(w, cs, c, cameraProperty, cameraName) ==
    Resolved(IF GetOr(cameraProperty, K("enable"), TRUE)
             THEN GetOrCreate([w EXCEPT !.hist.processed =
                                          MapSet(@, cameraName, Count(@, cameraName) + 1)],
                              cameraName)
             ELSE [w EXCEPT !.hist.processed =
                              MapSet(@, cameraName, Count(@, cameraName) + 1)],
             cs, c,
             SetKey(cameraProperty, K("enable"), GetOr(cameraProperty, K("enable"), TRUE)),
             cameraName,
             GetOr(cameraProperty, K("enable"), TRUE))

(***************************************************************************)
(* The configurations the callers pass                                     *)
(***************************************************************************)
Arc == << K("type"), "arcRotateCamera" >>
Entry(name, prop) == [ name |-> name, prop |-> prop ]

\* {A: {type, animationDuration: 5}}
CfgAnimate == << Entry("A", << Arc, << K("animationDuration"), 5 >> >>) >>
\* {A: {type, animationDuration: 0, radius: 5}}
CfgRadius == << Entry("A", << Arc, << K("animationDuration"), 0 >>,
                              << K("radius"), 5 >> >>) >>
\* {A: {type, enable: false}}
CfgDisable == << Entry("A", << Arc, << K("enable"), FALSE >> >>) >>
\* {A: {type, alphaInDegrees: 370, minimizeRotation: true, lowerRadiusLimit: 2}}
CfgRotate == << Entry("A", << Arc, << Deg("alpha"), 370 >>,
                              << K("minimizeRotation"), TRUE >>,
                              << K("lowerRadiusLimit"), 2 >> >>) >>
\* {B: {type: 'freeCamera'}, A: {type, animationDuration: 2, target: One, ...}}
CfgMixed ==
    << Entry("B", << << K("type"), "freeCamera" >> >>),
       Entry("A", << Arc, << K("animationDuration"), 2 >>, << K("target"), 1 >>,
                     << Deg("beta"), 60 >>, << K("upperRadiusLimit"), 9 >>,
                     << K("attachControl"), FALSE >>,
                     << K("autoRotationBehavior"), << << K("enabled"), TRUE >> >> >>,
                     << K("framingBehavior"), << << K("enabled"), TRUE >> >> >> >>) >>
\* {A: {type, animationDuration: 5, radius: 9}, B: {type, enable: true}}
CfgTwo == << Entry("A", << Arc, << K("animationDuration"), 5 >>, << K("radius"), 9 >> >>),
             Entry("B", << Arc, << K("enable"), TRUE >> >>) >>
\* {}
CfgEmpty == << >>
\* {DefaultCamera: {type: 'freeCamera'}}
CfgDefaultFree == << Entry(CAMERA_DEFAULT_NAME, << << K("type"), "freeCamera" >> >>) >>

\* {A: {type, radius: 3, alphaInDegrees: 90, target: Two, alpha: 40}}
CfgOrder == << Entry("A", << Arc, << K("radius"), 3 >>, << Deg("alpha"), 90 >>,
                             << K("target"), 2 >>, << K("alpha"), 40 >> >>) >>
\* {A: {type, upperBetaLimit: undefined, lowerRadiusLimit: 2}}
CfgUndefinedLimit == << Entry("A", << Arc, << K("upperBetaLimit"), Undefined >>,
                                      << K("lowerRadiusLimit"), 2 >> >>) >>

ConfigTable ==
    << CfgAnimate, CfgRadius, CfgDisable, CfgRotate, CfgMixed, CfgTwo, CfgEmpty,
       CfgDefaultFree, CfgOrder, CfgUndefinedLimit >>

\* The configurations every caller below may pass: all but the last two.
CommonConfigs == 1..(Len(ConfigTable) - 2)

(***************************************************************************)
(* Camera: the public operations                                           *)
(***************************************************************************)
\* The early return of lines 100-102 left out.
NothingToUpdateNever(cameraConfig) == FALSE

\* Lines 99-102: nothing to do for a configuration without entries.
NothingToUpdate(cameraConfig) == Len(cameraConfig) = 0

\* The switch of line 107 taking every entry for an arcRotateCamera.
IsSupportedTypeAny(cameraProperty) == TRUE

\* Line 107: the switch on the entry's type.
IsSupportedType(cameraProperty) ==
    HasKey(cameraProperty, K("type")) /\ Get(cameraProperty, K("type")) = "arcRotateCamera"

RECURSIVE WillFrom(_, _, _)
WillFrom(cameraConfig, i, map) ==
    IF i > Len(cameraConfig) THEN FALSE
    ELSE IF ~GetOr(cameraConfig[i].prop, K("enable"), TRUE) THEN TRUE
    ELSE IF ~MapHas(map, cameraConfig[i].name) THEN TRUE
    ELSE WillFrom(cameraConfig, i + 1, map)

\* willAddOrRemoveCameras without its test of enable (lines 122-126).
WillAddCamerasOnly(cameraConfig, map) ==
    \E i \in 1..Len(cameraConfig) : ~MapHas(map, cameraConfig[i].name)

\* Camera.willAddOrRemoveCameras
WillAddOrRemoveCameras(cameraConfig, map) == WillFrom(cameraConfig, 1, map)

\* Line 109 without its await: the loop goes on to the next entry at once.
AfterCycleNoAwait(call, r) ==
    [ w |-> r.w,
      call |-> [call EXCEPT
                  !.cfg[call.pos].prop = r.prop,
                  !.begun = Append(@, call.cfg[call.pos].name),
                  !.local = r.local,
                  !.cam = r.local.cam,
                  !.pc = "yield",
                  !.pos = @ + 1] ]

\* Line 109 with an await that does not return for a cycle without playback.
AfterCycleLost(call, r) ==
    [ w |-> r.w,
      call |-> [call EXCEPT
                  !.cfg[call.pos].prop = r.prop,
                  !.begun = Append(@, call.cfg[call.pos].name),
                  !.local = r.local,
                  !.cam = r.local.cam,
                  !.pc = IF r.awaiting THEN "play" ELSE "lost",
                  !.pos = IF r.awaiting THEN @ ELSE @ + 1] ]

\* Line 109: the loop waits for the cycle r of the call's current entry.
AfterCycle(call, r) ==
    [ w |-> r.w,
      call |-> [call EXCEPT
                  !.cfg[call.pos].prop = r.prop,
                  !.begun = Append(@, call.cfg[call.pos].name),
                  !.local = r.local,
                  !.cam = r.local.cam,
                  !.pc = IF r.awaiting THEN "play" ELSE "yield",
                  !.pos = IF r.awaiting THEN @ ELSE @ + 1] ]

RECURSIVE RunEntries(_, _, _, _)
\* The loop of updateCameras (lines 106-112) from entry pos on, up to its next
\* await: entries of another type are passed over, the first arcRotateCamera
\* entry runs its cycle and the loop waits for it.
RunEntries(w, cs, c, call) ==
    IF call.pos > Len(call.cfg) THEN [ w |-> w, call |-> [call EXCEPT !.pc = "done"] ]
    ELSE
      LET e == call.cfg[call.pos]
      IN  IF ~IsSupportedType(e.prop)
          THEN RunEntries(w, cs, c, [call EXCEPT !.pos = @ + 1])
          ELSE AfterCycle(call, UpdateArcRotateCamera(w, cs, c, e.prop, e.name))

Commit(w) ==
    /\ cameras' = w.cameras
    /\ sceneCameras' = w.sceneCameras
    /\ activeCamera' = w.activeCamera
    /\ cameraMap' = w.cameraMap
    /\ latestUpdateIndexMap' = w.latestUpdateIndexMap
    /\ firstCameraInteractionMap' = w.firstCameraInteractionMap
    /\ firstCameraInteractionObserverMap' = w.firstCameraInteractionObserverMap
    /\ cameraViewMatrixMap' = w.cameraViewMatrixMap
    /\ running' = w.running
    /\ nextObserver' = w.nextObserver
    /\ hist' = w.hist

\* A call of updateCameras with cameraConfig, the k-th configuration of the
\* table or one made from it.
NewCallOf(k, cameraConfig) ==
    [ cfgId |-> k, cfg |-> cameraConfig, pos |-> 1, pc |-> "done",
      cam |-> NoCamera, local |-> NoLocal,
      overlap |-> { c \in 1..Len(calls) : calls[c].pc # "done" },
      will |-> WillAddOrRemoveCameras(cameraConfig, cameraMap),
      changed |-> FALSE,
      begun |-> << >>,
      given |-> cameraConfig,
      atStart |-> [ n \in DOMAIN cameraMap |-> cameras[cameraMap[n]].p ] ]

NewCall(k) == NewCallOf(k, ConfigTable[k])

\* A camera object was created or disposed between w and w2.
CameraSetChanged(w, w2) ==
    \/ Len(w2.cameras) # Len(w.cameras)
    \/ \E id \in 1..Len(w.cameras) : w2.cameras[id].isDisposed # w.cameras[id].isDisposed

\* The state after the first stretch r of a new call.
Started(r) ==
    /\ calls' = Append(calls, [r.call EXCEPT !.changed = CameraSetChanged(World, r.w)])
    /\ Commit(r.w)

\* The state after a further stretch r of call c.
Continued(c, r) ==
    /\ calls' = [calls EXCEPT
                   ![c] = [r.call EXCEPT !.changed = @ \/ CameraSetChanged(World, r.w)]]
    /\ Commit(r.w)

\* Camera.updateCameras(cameraConfig), from the call to its first await (or
\* to its end).
UpdateCamerasOf(k, cameraConfig, budget) ==
    /\ Len(calls) < budget
    /\ LET c == Len(calls) + 1
           call == NewCallOf(k, cameraConfig)
       IN  IF NothingToUpdate(call.cfg)
           THEN /\ calls' = Append(calls, call)
                /\ Commit(World)
           ELSE Started(RunEntries(RemoveCamera(World, calls, CAMERA_DEFAULT_NAME),
                                   calls, c, call))
    /\ UNCHANGED << disposed, lastWill >>
    /\ UNCHANGED outside

\* Camera.updateCameras with the k-th configuration of the table.
UpdateCameras(k, budget) == UpdateCamerasOf(k, ConfigTable[k], budget)

\* The engine plays the animatable of call c to its last frame: the last key
\* of each animation is on the camera and waitAsync() resolves.
AnimationEnd(c) ==
    /\ c \in running
    /\ cameras' = [cameras EXCEPT
                     ![calls[c].cam] = ApplyLastKeys(@, calls[c].local.anims)]
    /\ running' = running \ {c}
    /\ UNCHANGED << sceneCameras, activeCamera, cameraMap, latestUpdateIndexMap,
                    firstCameraInteractionMap, firstCameraInteractionObserverMap,
                    cameraViewMatrixMap, nextObserver, calls, disposed, lastWill, hist >>
    /\ UNCHANGED outside

\* Lines 274-314, then back in the loop of updateCameras: the cycle of call c
\* goes on after its playback has ended (at its last frame, or stopped).
ResumeAfterPlayback(c) ==
    /\ c \in 1..Len(calls)
    /\ calls[c].pc = "play"
    /\ c \notin running
    /\ calls' = [calls EXCEPT
                   ![c].cfg[calls[c].pos].prop = SetKey(@, K("animationDuration"), 0),
                   ![c].pc = "yield",
                   ![c].pos = @ + 1]
    /\ Commit(PostAnimation(World, calls[c].local))
    /\ UNCHANGED << disposed, lastWill >>
    /\ UNCHANGED outside

\* The loop of updateCameras goes on after the await of an entry's cycle.
ResumeLoop(c) ==
    /\ c \in 1..Len(calls)
    /\ calls[c].pc = "yield"
    /\ Continued(c, RunEntries(World, calls, c, calls[c]))
    /\ UNCHANGED << disposed, lastWill >>
    /\ UNCHANGED outside

\* Lines 141-146 for one camera.
DisposeOne(w, cs, id) ==
    CameraDispose([SceneStopAnimations(w, cs, id) EXCEPT !.cameras[id].animations = <<>>],
                  cs, id)

RECURSIVE DisposeAll(_, _, _)
\* Lines 140-147, for the cameras of ids.
DisposeAll(w, cs, ids) ==
    IF ids = {} THEN w
    ELSE DisposeAll(DisposeOne(w, cs, CHOOSE x \in ids : TRUE), cs,
                    ids \ {CHOOSE x \in ids : TRUE})

\* Camera.dispose
DisposeCameras(w, cs) ==
    [DisposeAll(w, cs, { w.cameraMap[n] : n \in DOMAIN w.cameraMap })
               EXCEPT !.cameraMap = EmptyMap,
                   !.firstCameraInteractionMap = EmptyMap,
                   !.latestUpdateIndexMap = EmptyMap,
                   !.cameraViewMatrixMap = EmptyMap]

Dispose ==
    /\ ~disposed
    /\ disposed' = TRUE
    /\ Commit(DisposeCameras(World, calls))
    /\ UNCHANGED << calls, lastWill >>
    /\ UNCHANGED outside

\* A caller asks willAddOrRemoveCameras about a configuration.
AskWillAddOrRemoveCameras(k) ==
    /\ lastWill' = WillAddOrRemoveCameras(ConfigTable[k], cameraMap)
    /\ UNCHANGED << cameras, sceneCameras, activeCamera, cameraMap, latestUpdateIndexMap,
                    firstCameraInteractionMap, firstCameraInteractionObserverMap,
                    cameraViewMatrixMap, running, nextObserver, calls, disposed, hist >>
    /\ UNCHANGED outside

NoBuilt == [ name |-> "", cam |-> NoCamera, prop |-> <<>>, before |-> <<>>,
             anims |-> <<>>, lastFrame |-> 0, direct |-> FALSE, after |-> <<>>,
             playbacks |-> 0 ]

\* ObservableManager's constructor: an observable without listeners.
NoInteraction == [ listeners |-> 0, notified |-> 0, fired |-> 0, added |-> 0, moves |-> 0 ]

\* SceneManager's constructor (line 410) and an engine without render loops.
NoLoop == [ renderLoopStarted |-> FALSE, pendingReady |-> 0, activeRenderLoops |-> 0,
            requests |-> 0, ran |-> FALSE, stopped |-> FALSE ]

NoApplication == [ op |-> "none" ]

\* The constructor of Camera (lines 72-92): empty maps but for the default
\* camera, which is attached and, alone in the scene, active.
Init ==
    /\ cameras = << [NewArcRotateCamera(CAMERA_DEFAULT_NAME) EXCEPT !.attached = TRUE] >>
    /\ sceneCameras = << 1 >>
    /\ activeCamera = 1
    /\ cameraMap = (CAMERA_DEFAULT_NAME :> 1)
    /\ latestUpdateIndexMap = EmptyMap
    /\ firstCameraInteractionMap = EmptyMap
    /\ firstCameraInteractionObserverMap = EmptyMap
    /\ cameraViewMatrixMap = EmptyMap
    /\ running = {}
    /\ nextObserver = 1
    /\ calls = << >>
    /\ disposed = FALSE
    /\ lastWill = FALSE
    /\ hist = [ processed |-> EmptyMap, cyclesBegun |-> EmptyMap, created |-> {},
                playbacks |-> 0, posts |-> 0, stalePost |-> FALSE, built |-> NoBuilt ]
    /\ interaction = NoInteraction
    /\ loop = NoLoop
    /\ pure = NoApplication

Next ==
    \/ \E k \in CommonConfigs : UpdateCameras(k, MaxCalls)
    \/ \E c \in 1..Len(calls) : AnimationEnd(c)
    \/ \E c \in 1..Len(calls) : ResumeAfterPlayback(c)
    \/ \E c \in 1..Len(calls) : ResumeLoop(c)
    \/ Dispose

Spec == Init /\ [][Next]_vars

\* The same configurator with a caller that also asks willAddOrRemoveCameras.
NextWill ==
    \/ \E k \in CommonConfigs : UpdateCameras(k, MaxWillCalls)
    \/ \E c \in 1..Len(calls) : AnimationEnd(c)
    \/ \E c \in 1..Len(calls) : ResumeAfterPlayback(c)
    \/ \E c \in 1..Len(calls) : ResumeLoop(c)
    \/ Dispose
    \/ \E k \in 1..Len(ConfigTable) : AskWillAddOrRemoveCameras(k)

SpecWill == Init /\ [][NextWill]_vars

\* The same configurator over one more call.
NextDeep ==
    \/ \E k \in CommonConfigs : UpdateCameras(k, MaxDeepCalls)
    \/ \E c \in 1..Len(calls) : AnimationEnd(c)
    \/ \E c \in 1..Len(calls) : ResumeAfterPlayback(c)
    \/ \E c \in 1..Len(calls) : ResumeLoop(c)
    \/ Dispose

SpecDeep == Init /\ [][NextDeep]_vars

\* SceneManager._config.cameraConfig (modelLoader.ts, line 471): the merged
\* configuration the latest updateConfig has stored and handed to
\* updateCameras, which sets fields of it (lines 157 and 274 of camera.ts).
StoredConfig == IF calls = << >> THEN << >> ELSE calls[Len(calls)].cfg

\* The place of the entry of a name in a configuration, 0 when it has none.
EntryIndex(cameraConfig, name) ==
    IF \E i \in 1..Len(cameraConfig) : cameraConfig[i].name = name
    THEN CHOOSE i \in 1..Len(cameraConfig) : cameraConfig[i].name = name
    ELSE 0

RECURSIVE MergeConfig(_, _)
\* deepmerge(stored, newConfig) on the camera configurations (line 471): the
\* entry of a name both have is a new object with the stored fields and,
\* over them, the new ones; an entry only newConfig has goes last.
MergeConfig(stored, newConfig) ==
    IF newConfig = << >> THEN stored
    ELSE IF EntryIndex(stored, Head(newConfig).name) = 0
         THEN MergeConfig(Append(stored, Head(newConfig)), Tail(newConfig))
         ELSE MergeConfig([stored EXCEPT ![EntryIndex(stored, Head(newConfig).name)].prop =
                                            MergeInto(@, Head(newConfig).prop)],
                          Tail(newConfig))

\* SceneManager.updateConfig({cameraConfig: ConfigTable[k]}) (lines 470-497),
\* up to the first await of updateCameras: the configuration is merged into
\* the stored one and the cameras are configured from the merged one.
UpdateConfig(k, budget) ==
    UpdateCamerasOf(k, MergeConfig(StoredConfig, ConfigTable[k]), budget)

\* A scene manager whose callers update camera A: with a duration, with a
\* duration of 0, and without naming a duration.
DeltaConfigs == { 1, 2, 4 }
NextConfig ==
    \/ \E k \in DeltaConfigs : UpdateConfig(k, MaxConfigCalls)
    \/ \E c \in 1..Len(calls) : AnimationEnd(c)
    \/ \E c \in 1..Len(calls) : ResumeAfterPlayback(c)
    \/ \E c \in 1..Len(calls) : ResumeLoop(c)

SpecConfig == Init /\ [][NextConfig]_vars

\* The configurator where what is pending is run: the engine plays every
\* playback to its end (unless it is stopped before), and the event loop runs
\* the continuation of every await that has returned.
LiveConfigs == { 1, 3, 6 }
NextLive ==
    \/ \E k \in LiveConfigs : UpdateCameras(k, MaxLiveCalls)
    \/ \E c \in 1..Len(calls) : AnimationEnd(c)
    \/ \E c \in 1..Len(calls) : ResumeAfterPlayback(c)
    \/ \E c \in 1..Len(calls) : ResumeLoop(c)
    \/ Dispose

\* A playback is played to its end.
Playback == \E c \in 1..Len(calls) : AnimationEnd(c)
\* The continuation of an await that has returned is run.
Continuation == \E c \in 1..Len(calls) : ResumeAfterPlayback(c) \/ ResumeLoop(c)
\* Some await has returned and its continuation has not run yet: the guards
\* of ResumeAfterPlayback and ResumeLoop.
Waiting ==
    \E c \in 1..Len(calls) :
      \/ calls[c].pc = "play" /\ c \notin running
      \/ calls[c].pc = "yield"

\* Weak fairness of the playbacks and of the continuations, the latter with
\* the condition under which a continuation can run written out.
SpecLive ==
    /\ Init /\ [][NextLive]_vars
    /\ WF_vars(Playback)
    /\ ([]<>~Waiting \/ []<><<Continuation>>_vars)

\* The configurator with callers that update, disable and re-create camera A.
StackConfigs == { 1, 2, 3 }
NextStack ==
    \/ \E k \in StackConfigs : UpdateCameras(k, MaxStackCalls)
    \/ \E c \in 1..Len(calls) : AnimationEnd(c)
    \/ \E c \in 1..Len(calls) : ResumeAfterPlayback(c)
    \/ \E c \in 1..Len(calls) : ResumeLoop(c)

SpecStack == Init /\ [][NextStack]_vars

\* The configurator with callers that pass several animatable properties in
\* one entry, or a limit that is undefined.
ShapeConfigs == { 1, 5, 9, 10 }
NextShape ==
    \/ \E k \in ShapeConfigs : UpdateCameras(k, MaxShapeCalls)
    \/ \E c \in 1..Len(calls) : AnimationEnd(c)
    \/ \E c \in 1..Len(calls) : ResumeAfterPlayback(c)
    \/ \E c \in 1..Len(calls) : ResumeLoop(c)

SpecShape == Init /\ [][NextShape]_vars

(***************************************************************************)
(* The helpers of Camera applied to given inputs                           *)
(***************************************************************************)
inside == << cameras, sceneCameras, activeCamera, cameraMap, latestUpdateIndexMap,
             firstCameraInteractionMap, firstCameraInteractionObserverMap,
             cameraViewMatrixMap, running, nextObserver, calls, disposed,
             lastWill, hist >>

Angles == { 10 * d : d \in -MaxAngleSteps..MaxAngleSteps }

\* Each helper is applied once, to inputs drawn from the sets below.
\* _createArcRotateCameraAnimation for a camera whose property key is at
\* `current` degrees and a configured value of `target` degrees.
ApplyCreateAnimation(key, current, target, minimizeRotation) ==
    /\ pure = NoApplication
    /\ pure' = [ op |-> "createArcRotateCameraAnimation",
                 key |-> key, current |-> current, target |-> target,
                 minimizeRotation |-> minimizeRotation,
                 animation |->
                   CreateArcRotateCameraAnimation(
                     key, ToRadians(target), 1,
                     CamSet(NewArcRotateCamera("A"), key, ToRadians(current)),
                     DEFAULT_CAMERA_ANIMATION_CONFIG, minimizeRotation) ]
    /\ UNCHANGED << inside, interaction, loop >>

\* The keys a property bag is made of here: the meta-keys, the animatable
\* keys, keys in degrees, a limit, and two keys the configuration types do
\* not know.
KeyPool ==
    << K("attachControl"), K("enable"), K("animationDuration"), K("cameraAnimationConfig"),
       K("autoRotationBehavior"), K("framingBehavior"), K("type"), K("minimizeRotation"),
       K("target"), K("fov"), K("alpha"), Deg("alpha"), Deg("beta"), K("radius"),
       K("lowerRadiusLimit"), K("wheelPrecision"), K("toString") >>

SampleValue(key) ==
    IF key \in { K("attachControl"), K("enable"), K("minimizeRotation") } THEN TRUE
    ELSE IF key = K("type") THEN "arcRotateCamera"
    ELSE IF key = K("cameraAnimationConfig") THEN DEFAULT_CAMERA_ANIMATION_CONFIG
    ELSE IF key \in { K("autoRotationBehavior"), K("framingBehavior") }
         THEN << << K("enabled"), TRUE >> >>
    ELSE 7

\* The property bag with the keys of KeyPool at the indices of picks, in order.
BagOf(picks) ==
    [ i \in 1..Len(picks) |-> << KeyPool[picks[i]], SampleValue(KeyPool[picks[i]]) >> ]

\* _extractConfigProperties for a property bag of n distinct keys.
ApplyExtract(n) ==
    /\ pure = NoApplication
    /\ \E picks \in [1..n -> 1..Len(KeyPool)] :
         /\ \A i, j \in 1..n : i # j => picks[i] # picks[j]
         /\ pure' = [ op |-> "extractConfigProperties",
                      prop |-> BagOf(picks),
                      out |-> ExtractConfigProperties(BagOf(picks)) ]
    /\ UNCHANGED << inside, interaction, loop >>

\* Lines 220-224 for a duration of `given` ticks, or not given at all.
ApplyLastFrame(given) ==
    /\ pure = NoApplication
    /\ pure' = [ op |-> "lastFrame", given |-> given,
                 animationDuration |-> Coalesce(given, 0),
                 lastFrame |-> LastFrameIn(TicksPerSecond, Coalesce(given, 0)) ]
    /\ UNCHANGED << inside, interaction, loop >>

NextPure ==
    \/ /\ pure = NoApplication
       /\ \E key \in { K("alpha"), K("beta"), K("radius") } :
            \E current, target \in Angles : \E minimizeRotation \in BOOLEAN :
              ApplyCreateAnimation(key, current, target, minimizeRotation)
    \/ /\ pure = NoApplication
       /\ \E n \in 0..MaxProps : ApplyExtract(n)
    \/ /\ pure = NoApplication
       /\ \E given \in (-MaxTicks..MaxTicks) \cup { Undefined } : ApplyLastFrame(given)

SpecPure == Init /\ [][NextPure]_vars

(***************************************************************************)
(* The first camera interaction                                            *)
(***************************************************************************)
\* camera.getViewMatrix(): the pose the matrix is computed from.
ViewMatrix(cam) ==
    << CamGet(cam, K("alpha")), CamGet(cam, K("beta")),
       CamGet(cam, K("radius")), CamGet(cam, K("target")) >>

\* Lines 306-307: notifyObservers() calls every listener of
\* onCameraFirstInteractionObservable, clear() leaves it without listeners.
NotifyAndClear(i) ==
    [i EXCEPT !.notified = @ + 1,
              !.fired = IF i.listeners > 0 THEN @ + 1 ELSE @,
              !.listeners = 0]

\* Lines 304-310 once the callback knows whether the matrix differs.
CallbackWith(s, cameraName, id, differs) ==
    [ w |-> [s.w EXCEPT
               !.firstCameraInteractionMap =
                  IF differs THEN MapSet(@, cameraName, TRUE) ELSE @,
               !.cameraViewMatrixMap =
                  MapSet(@, cameraName, ViewMatrix(s.w.cameras[id]))],
      i |-> IF differs THEN NotifyAndClear(s.i) ELSE s.i ]

\* Lines 303-311: the callback of a first-interaction observer registered for
\* cameraName, called with camera object id.
ObserverCallback(s, cameraName, id) ==
    CallbackWith(s, cameraName, id,
                 /\ MapHas(s.w.cameraViewMatrixMap, cameraName)
                 /\ s.w.cameraViewMatrixMap[cameraName] # NullMatrix
                 /\ s.w.cameraViewMatrixMap[cameraName] # ViewMatrix(s.w.cameras[id]))

RECURSIVE RunObservers(_, _, _, _)
\* onViewMatrixChangedObservable notifies the n observers left of a camera.
RunObservers(s, cameraName, id, n) ==
    IF n = 0 THEN s
    ELSE RunObservers(ObserverCallback(s, cameraName, id), cameraName, id, n - 1)

\* The state after a change of a view matrix has been observed.
Observed(s) ==
    /\ Commit(s.w)
    /\ interaction' = s.i

\* The view matrix of camera object id changes (the camera is turned by one
\* degree) and the engine notifies the observers of the camera's
\* onViewMatrixChangedObservable.
ViewMatrixChanged(id) ==
    /\ interaction.moves < MaxMoves
    /\ ~cameras[id].isDisposed
    /\ Observed(RunObservers(
                  [ w |-> [World EXCEPT !.cameras[id] =
                                          CamSet(@, K("alpha"), CamGet(@, K("alpha")) + 2)],
                    i |-> [interaction EXCEPT !.moves = @ + 1] ],
                  cameras[id].name, id, Cardinality(cameras[id].observers)))
    /\ UNCHANGED << calls, disposed, lastWill, loop, pure >>

\* V3DScene.setOnCameraFirstInteraction: one more listener.
SetOnCameraFirstInteraction ==
    /\ interaction.added < MaxListeners
    /\ interaction' = [interaction EXCEPT !.listeners = @ + 1, !.added = @ + 1]
    /\ UNCHANGED << inside, loop, pure >>

NextInteract ==
    \/ \E k \in CommonConfigs : UpdateCameras(k, MaxInteractCalls)
    \/ \E c \in 1..Len(calls) : AnimationEnd(c)
    \/ \E c \in 1..Len(calls) : ResumeAfterPlayback(c)
    \/ \E c \in 1..Len(calls) : ResumeLoop(c)
    \/ \E id \in 1..Len(cameras) : ViewMatrixChanged(id)
    \/ SetOnCameraFirstInteraction

SpecInteract == Init /\ [][NextInteract]_vars

\* The scene renders with its active camera: Camera.getViewMatrix() finds the
\* pose changed since the matrix was last computed, computes it anew and
\* notifies the observers of the camera's onViewMatrixChangedObservable.
Render(id) ==
    /\ id = activeCamera
    /\ ~cameras[id].isDisposed
    /\ cameras[id].computedViewMatrix # ViewMatrix(cameras[id])
    /\ Observed(RunObservers(
                  [ w |-> [World EXCEPT !.cameras[id].computedViewMatrix =
                                          ViewMatrix(cameras[id])],
                    i |-> interaction ],
                  cameras[id].name, id, Cardinality(cameras[id].observers)))
    /\ UNCHANGED << calls, disposed, lastWill, loop, pure >>

\* The user turns camera object id, whose controls are attached, by one
\* degree; the change is seen at the next rendering.
UserTurn(id) ==
    /\ interaction.moves < MaxMoves
    /\ ~cameras[id].isDisposed
    /\ cameras[id].attached
    /\ cameras' = [cameras EXCEPT ![id] = CamSet(@, K("alpha"), CamGet(@, K("alpha")) + 2)]
    /\ interaction' = [interaction EXCEPT !.moves = @ + 1]
    /\ UNCHANGED << sceneCameras, activeCamera, cameraMap, latestUpdateIndexMap,
                    firstCameraInteractionMap, firstCameraInteractionObserverMap,
                    cameraViewMatrixMap, running, nextObserver, calls, disposed,
                    lastWill, hist, loop, pure >>

\* The configurator in a scene that is rendered, with callers that update
\* camera A without a duration.
RenderConfigs == { 2, 4 }
NextRender ==
    \/ \E k \in RenderConfigs : UpdateCameras(k, MaxRenderCalls)
    \/ \E c \in 1..Len(calls) : ResumeLoop(c)
    \/ \E id \in 1..Len(cameras) : Render(id)
    \/ \E id \in 1..Len(cameras) : UserTurn(id)
    \/ SetOnCameraFirstInteraction

SpecRender == Init /\ [][NextRender]_vars

(***************************************************************************)
(* SceneManager: the render loop                                           *)
(***************************************************************************)
\* SceneManager.runRenderLoop (modelLoader.ts, lines 549-575), the scene being
\* there: nothing when a loop has been started, else a continuation on
\* scene.whenReadyAsync() and the flag set.
RunRenderLoop ==
    /\ loop.requests < MaxLoopCalls
    /\ loop' = IF loop.renderLoopStarted
               THEN [loop EXCEPT !.requests = @ + 1, !.ran = TRUE, !.stopped = FALSE]
               ELSE [loop EXCEPT !.requests = @ + 1, !.ran = TRUE, !.stopped = FALSE,
                                 !.pendingReady = @ + 1,
                                 !.renderLoopStarted = TRUE]
    /\ UNCHANGED << inside, interaction, pure >>

\* The continuation of lines 554-572: the scene is ready and the engine is
\* given a new render function, which it adds to its active render loops.
SceneReady ==
    /\ loop.pendingReady > 0
    /\ loop' = [loop EXCEPT !.pendingReady = @ - 1, !.activeRenderLoops = @ + 1]
    /\ UNCHANGED << inside, interaction, pure >>

\* SceneManager.stopRenderLoop (lines 580-587): nothing when no loop has been
\* started, else engine.stopRenderLoop(), which empties the engine's active
\* render loops, and the flag reset.
StopRenderLoop ==
    /\ loop.requests < MaxLoopCalls
    /\ loop' = IF ~loop.renderLoopStarted
               THEN [loop EXCEPT !.requests = @ + 1, !.stopped = loop.ran]
               ELSE [loop EXCEPT !.requests = @ + 1, !.stopped = loop.ran,
                                 !.activeRenderLoops = 0,
                                 !.renderLoopStarted = FALSE]
    /\ UNCHANGED << inside, interaction, pure >>

NextLoop ==
    \/ RunRenderLoop
    \/ SceneReady
    \/ StopRenderLoop

SpecLoop == Init /\ [][NextLoop]_vars

(***************************************************************************)
(* Properties                                                              *)
(***************************************************************************)
Names == { "A", "B" }
Tracked(n) == n \in DOMAIN cameraMap
CameraOf(n) == cameras[cameraMap[n]]
AllDone == \A c \in 1..Len(calls) : calls[c].pc = "done"

\* C1: while the configurator is in use (not disposed), a cycle performs its
\* post-animation effects only if no other processing of its camera name
\* (update, disable, re-creation) has started since the cycle began.
C1_PostOnlyIfNoNewerCycle == ~disposed => ~hist.stalePost

\* C3: for each camera name the update-generation counter never falls behind
\* the number of cycles begun for that name, disable and re-enable included:
\* every cycle adds exactly one to it and nothing takes anything away.
C3_CounterCountsCycles ==
    ~disposed =>
      \A n \in Names :
        MapHas(latestUpdateIndexMap, n) => latestUpdateIndexMap[n] = Count(hist.cyclesBegun, n)

\* A step that processes an enable: false entry for the tracked camera n.
DisableStep(n) ==
    /\ Tracked(n)
    /\ Count(hist'.processed, n) = Count(hist.processed, n) + 1
    /\ Count(hist'.cyclesBegun, n) = Count(hist.cyclesBegun, n)

\* C4: once an enable: false entry for an existing camera is processed, the
\* camera is out of the scene's registry and the name has no record left in
\* the camera map, the generation counters, the first-interaction flags, the
\* view matrices and the registered interaction observers.
C4_DisablePurgesName ==
    [][ \A n \in Names :
          DisableStep(n) =>
            /\ ~Includes(sceneCameras', cameraMap[n])
            /\ n \notin DOMAIN cameraMap'
            /\ n \notin DOMAIN latestUpdateIndexMap'
            /\ n \notin DOMAIN firstCameraInteractionMap'
            /\ n \notin DOMAIN cameraViewMatrixMap'
            /\ n \notin DOMAIN firstCameraInteractionObserverMap' ]_vars

\* C5: when dispose() returns every camera that was tracked has an empty
\* animation list and is disposed, and the five per-name maps are empty.
C5_DisposeClearsAll ==
    [][ (~disposed /\ disposed') =>
          /\ \A n \in DOMAIN cameraMap :
                /\ cameras'[cameraMap[n]].animations = <<>>
                /\ cameras'[cameraMap[n]].isDisposed
          /\ DOMAIN cameraMap' = {}
          /\ DOMAIN latestUpdateIndexMap' = {}
          /\ DOMAIN firstCameraInteractionMap' = {}
          /\ DOMAIN cameraViewMatrixMap' = {}
          /\ DOMAIN firstCameraInteractionObserverMap' = {} ]_vars

\* The two overlapping calls of the staleness scenario: updateCameras for A
\* with animationDuration 5, then, before it resolves, for A with
\* animationDuration 0 and radius 5; both have resolved and nothing else ran.
StaleScenarioDone ==
    /\ ~disposed
    /\ Len(calls) = 2
    /\ calls[1].cfgId = 1 /\ calls[2].cfgId = 2
    /\ 1 \in calls[2].overlap
    /\ AllDone

\* C2: after those two calls A's radius is 5 and A's properties, limits
\* included, are those the second call left: the first call's post-animation
\* step has changed nothing.
C2_LastStartedWins ==
    StaleScenarioDone =>
      /\ Tracked("A")
      /\ CamGet(CameraOf("A"), K("radius")) = 5
      /\ CameraOf("A").p = hist.built.after
      /\ CameraOf("A").animations = <<>>
C2_Witness == StaleScenarioDone /\ hist.built.direct /\ hist.posts = 1

\* A step that is an updateCameras call with an empty configuration.
EmptyCallStep ==
    /\ Len(calls') = Len(calls) + 1
    /\ Len(calls'[Len(calls')].cfg) = 0

\* C6: updateCameras with an empty configuration resolves at once and leaves
\* the cameras, the scene's registry, the active camera and every per-name
\* record as they were.
C6_EmptyConfigurationChangesNothing ==
    [][ EmptyCallStep =>
          /\ calls'[Len(calls')].pc = "done"
          /\ UNCHANGED << cameras, sceneCameras, activeCamera, cameraMap,
                          latestUpdateIndexMap, firstCameraInteractionMap,
                          firstCameraInteractionObserverMap, cameraViewMatrixMap,
                          running >> ]_vars
C6_Witness ==
    /\ Len(calls) = 1 /\ Len(calls[1].cfg) = 0 /\ calls[1].pc = "done"
    /\ Tracked(CAMERA_DEFAULT_NAME)
    /\ activeCamera = cameraMap[CAMERA_DEFAULT_NAME]

EnableOf(e) == GetOr(e.prop, K("enable"), TRUE)

\* C7: willAddOrRemoveCameras is true for a configuration with an enabled
\* entry whose name is not tracked, false for one whose names are all tracked
\* and enabled, true for one with a tracked name and enable: false; asking
\* changes nothing else.
C7_WillAddOrRemoveCameras ==
    /\ [](\A k \in 1..Len(ConfigTable) :
            LET cfg == ConfigTable[k]
                will == WillAddOrRemoveCameras(cfg, cameraMap)
            IN  /\ (\E i \in 1..Len(cfg) : EnableOf(cfg[i]) /\ ~Tracked(cfg[i].name)) => will
                /\ (\A i \in 1..Len(cfg) : EnableOf(cfg[i]) /\ Tracked(cfg[i].name)) => ~will
                /\ (\E i \in 1..Len(cfg) : ~EnableOf(cfg[i]) /\ Tracked(cfg[i].name)) => will)
    /\ [][ lastWill' # lastWill =>
             UNCHANGED << cameras, sceneCameras, activeCamera, cameraMap,
                          latestUpdateIndexMap, firstCameraInteractionMap,
                          firstCameraInteractionObserverMap, cameraViewMatrixMap,
                          running, nextObserver, calls, disposed, hist >> ]_vars
C7_Witness ==
    /\ Tracked("A") /\ ~Tracked("B")
    /\ lastWill
    /\ WillAddOrRemoveCameras(CfgDisable, cameraMap)
    /\ ~WillAddOrRemoveCameras(CfgRadius, cameraMap)
    /\ WillAddOrRemoveCameras(CfgTwo, cameraMap)

\* A call that ran alone: no call was unresolved when it began, none began
\* before it resolved, and dispose() was not called.
RanAlone(c) ==
    /\ ~disposed
    /\ calls[c].pc = "done"
    /\ calls[c].overlap = {}
    /\ \A d \in 1..Len(calls) : c \notin calls[d].overlap

\* C8: willAddOrRemoveCameras(config) is true exactly when the updateCameras
\* (config) that follows it creates or removes at least one camera object.
C8_WillIffCameraSetChanges ==
    \A c \in 1..Len(calls) : RanAlone(c) => (calls[c].will <=> calls[c].changed)

\* What a property bag asks of the camera: the <<key, value>> pairs of the
\* keys that are not meta-keys, a key in degrees under its base name with its
\* value in radians.
MetaKeys ==
    { K("attachControl"), K("enable"), K("animationDuration"), K("cameraAnimationConfig"),
      K("autoRotationBehavior"), K("framingBehavior"), K("type"), K("minimizeRotation") }
Asked(prop) ==
    { IF Len(prop[i][1]) = 2 /\ prop[i][1][2] = "InDegrees"
      THEN << K(prop[i][1][1]), 2 * prop[i][2] >>
      ELSE << prop[i][1], prop[i][2] >> :
      i \in { j \in 1..Len(prop) : prop[j][1] \notin MetaKeys } }
Animatable == { K("target"), K("fov"), K("alpha"), K("beta"), K("radius") }
Minimized(prop, key) ==
    GetOr(prop, K("minimizeRotation"), FALSE) /\ key \in { K("alpha"), K("beta") }
\* x is the angle congruent to target modulo a full turn (720 units) that is
\* at most half a turn away from from.
ShortestFrom(x, from, target) ==
    /\ (x - target) % 720 = 0
    /\ x - from <= 360 /\ from - x <= 360

\* The last cycle ran without a duration.
DirectCycle == hist.built.name # "" /\ hist.built.direct

\* C9 as stated: after a cycle without a duration every configured property
\* of the camera, animatable or not, has its configured value, the target is
\* the zero vector when none is configured, and no playback was started.
C9_DirectValuesAsConfigured ==
    DirectCycle =>
      LET b == hist.built
      IN  /\ \A kv \in Asked(b.prop) : b.after[kv[1]] = kv[2]
          /\ (\A kv \in Asked(b.prop) : kv[1] # K("target")) => b.after[K("target")] = 0
          /\ b.playbacks = 0

\* C9 amended: the same, except that alpha and beta configured with
\* minimizeRotation set have the angle congruent to the configured one that is
\* nearest to the camera's angle before the update.
C9_DirectValuesAsBuilt ==
    DirectCycle =>
      LET b == hist.built
      IN  /\ \A kv \in Asked(b.prop) :
                IF Minimized(b.prop, kv[1])
                THEN ShortestFrom(b.after[kv[1]], b.before[kv[1]], kv[2])
                ELSE b.after[kv[1]] = kv[2]
          /\ (\A kv \in Asked(b.prop) : kv[1] # K("target")) => b.after[K("target")] = 0
          /\ b.playbacks = 0
C9_Witness ==
    /\ DirectCycle
    /\ Minimized(hist.built.prop, K("alpha"))
    /\ hist.built.after[K("alpha")] = 20
    /\ hist.built.after[K("lowerRadiusLimit")] = 2

\* C10: every animation a cycle builds has two keys, the first at frame 0
\* with the camera's value before the update, the second at the cycle's last
\* frame with the configured target (the zero vector for a target that is not
\* configured), or with the rotation-minimized target where that applies.
C10_TwoKeyframes ==
    hist.built.name # "" =>
      LET b == hist.built
          asked == Asked(b.prop)
      IN  \A i \in 1..Len(b.anims) :
            LET a == b.anims[i]
                key == a.targetProperty
                want == { kv[2] : kv \in { x \in asked : x[1] = key } }
            IN  /\ Len(a.keys) = 2
                /\ a.keys[1].frame = 0
                /\ a.keys[1].value = b.before[key]
                /\ a.keys[2].frame = b.lastFrame
                /\ IF want = {} THEN key = K("target") /\ a.keys[2].value = 0
                   ELSE \A v \in want :
                          IF Minimized(b.prop, key)
                          THEN ShortestFrom(a.keys[2].value, b.before[key], v)
                          ELSE a.keys[2].value = v
C10_Witness ==
    /\ hist.built.name # ""
    /\ ~hist.built.direct
    /\ Len(hist.built.anims) = 2
    /\ hist.built.anims[2].keys[1].value # hist.built.anims[2].keys[2].value

\* The signed difference from current to target, in degrees, taken into
\* (-180, 180].
Wrapped(current, target) ==
    CHOOSE d \in -179..180 : (target - current - d) % 360 = 0

AngleBuilt(key) ==
    /\ pure.op = "createArcRotateCameraAnimation"
    /\ pure.minimizeRotation
    /\ pure.key = key

\* C11: with minimizeRotation set and a numeric target for alpha or beta, the
\* end keyframe is the current angle plus the signed difference from current
\* to target taken into (-180, 180] degrees: it is at most 180 degrees from
\* the current angle and congruent to the target modulo 360 degrees.
C11_MinimizedEndKeyframe ==
    \A key \in { K("alpha"), K("beta") } :
      AngleBuilt(key) =>
        LET end == ToDegrees(pure.animation.keys[2].value)
        IN  /\ pure.animation.keys[2].value =
                 ToRadians(pure.current + Wrapped(pure.current, pure.target))
            /\ end - pure.current <= 180 /\ pure.current - end <= 180
            /\ (end - pure.target) % 360 = 0
C11_Witness ==
    /\ AngleBuilt(K("alpha"))
    /\ pure.current = 350 /\ pure.target = 10
    /\ pure.animation.keys[2].value = ToRadians(370)

\* The properties of the tracked cameras, by name.
CameraState == [ n \in DOMAIN cameraMap |-> cameras[cameraMap[n]].p ]

\* Call c is the second of two updateCameras calls with the same non-empty
\* configuration, begun after the first had resolved, and has resolved; no
\* other call overlapped either and none has followed.
Repeated(c) ==
    /\ c > 1 /\ c = Len(calls)
    /\ calls[c].cfgId = calls[c - 1].cfgId
    /\ Len(calls[c].cfg) > 0
    /\ RanAlone(c - 1) /\ RanAlone(c)

\* C12: after the second of two sequential updateCameras calls with identical
\* input the tracked cameras and their properties (animatable values,
\* non-animatable values, limits) are what they were after the first.
C12_SequentialRepeatIsIdempotent ==
    \A c \in 1..Len(calls) : Repeated(c) => CameraState = calls[c].atStart
C12_Witness ==
    /\ Repeated(2)
    /\ calls[2].cfgId = 4
    /\ Tracked("A")
    /\ CamGet(CameraOf("A"), K("alpha")) = 20
    /\ CamGet(CameraOf("A"), K("lowerRadiusLimit")) = 2

\* The step takes the loop of call c past entry i of its configuration.
PassesOver(c, i) ==
    /\ (IF c \in 1..Len(calls) THEN calls[c].pos ELSE 1) <= i
    /\ i < calls'[c].pos

\* An entry of a type other than the one camera type there is.
Unsupported(e) == GetOr(e.prop, K("type"), "none") # "arcRotateCamera"

SameEntry(m, m2, n) ==
    /\ n \in DOMAIN m2 <=> n \in DOMAIN m
    /\ n \in DOMAIN m => m2[n] = m[n]

\* The step leaves everything kept under name n as it was: its camera, in or
\* out of the scene, and its records in the five maps.
NameUntouched(n) ==
    /\ SameEntry(cameraMap, cameraMap', n)
    /\ n \in DOMAIN cameraMap =>
         /\ cameras'[cameraMap[n]] = cameras[cameraMap[n]]
         /\ Includes(sceneCameras', cameraMap[n]) <=> Includes(sceneCameras, cameraMap[n])
    /\ SameEntry(latestUpdateIndexMap, latestUpdateIndexMap', n)
    /\ SameEntry(firstCameraInteractionMap, firstCameraInteractionMap', n)
    /\ SameEntry(firstCameraInteractionObserverMap, firstCameraInteractionObserverMap', n)
    /\ SameEntry(cameraViewMatrixMap, cameraViewMatrixMap', n)

\* A call that ran alone and was the last one has every enabled entry of the
\* supported type tracked: the entries after a skipped one were processed.
SupportedEntriesProcessed ==
    \A c \in 1..Len(calls) :
      (RanAlone(c) /\ c = Len(calls)) =>
        \A i \in 1..Len(calls[c].cfg) :
          (~Unsupported(calls[c].cfg[i]) /\ EnableOf(calls[c].cfg[i]))
            => Tracked(calls[c].cfg[i].name)

\* C13 as stated: an entry of an unsupported type is skipped: the step that
\* takes the loop past it leaves everything kept under its name as it was,
\* whatever the name, and the call goes on to its remaining entries and
\* resolves.
C13_UnsupportedEntrySkipped ==
    /\ [][ \A c \in 1..Len(calls') : \A i \in 1..Len(calls'[c].cfg) :
             (PassesOver(c, i) /\ Unsupported(calls'[c].cfg[i]))
               => NameUntouched(calls'[c].cfg[i].name) ]_vars
    /\ []SupportedEntriesProcessed

\* C13 amended: the same for every name but the default camera's, whose
\* camera the call removes before it looks at any entry.
C13_UnsupportedEntrySkippedButDefault ==
    /\ [][ \A c \in 1..Len(calls') : \A i \in 1..Len(calls'[c].cfg) :
             (/\ PassesOver(c, i)
              /\ Unsupported(calls'[c].cfg[i])
              /\ calls'[c].cfg[i].name # CAMERA_DEFAULT_NAME)
               => NameUntouched(calls'[c].cfg[i].name) ]_vars
    /\ []SupportedEntriesProcessed
C13_Witness ==
    /\ ~disposed /\ AllDone
    /\ Len(calls) = 2
    /\ calls[1].cfgId = 6 /\ calls[2].cfgId = 5
    /\ Unsupported(calls[2].cfg[1]) /\ calls[2].cfg[1].name = "B"
    /\ Tracked("B") /\ Tracked("A")
    /\ CamGet(CameraOf("A"), K("upperRadiusLimit")) = 9

\* C14: in the lifetime of a configurator the first-camera-interaction
\* notification reaches listeners once at most, however many cameras carry an
\* interaction observer and whenever the listeners were registered: after the
\* first time it is never delivered again.
C14_FiredAtMostOnce == interaction.fired <= 1

\* C15: whatever runRenderLoop and stopRenderLoop calls and scene-ready
\* completions have taken place, the engine has at most one render loop.
C15_AtMostOneRenderLoop == loop.activeRenderLoops <= 1

\* C16: from a stopRenderLoop call that follows a runRenderLoop call until the
\* next runRenderLoop call the engine has no active render loop.
C16_NoLoopOnceStopped == loop.stopped => loop.activeRenderLoops = 0

\* A key of a property bag under its base name: without the degree suffix.
BaseName(key) ==
    IF Len(key) = 2 /\ key[2] = "InDegrees" THEN K(key[1]) ELSE key

\* The mappings of a classification that hold key.
MappingsWith(out, key) ==
    { m \in { "animatable", "special", "nonAnimatable" } :
        \/ m = "animatable" /\ HasKey(out.animatableValuesToUpdate, key)
        \/ m = "special" /\ HasKey(out.specialAnimatableValuesToUpdate, key)
        \/ m = "nonAnimatable" /\ HasKey(out.nonAnimatableValuesToUpdate, key) }

Classified == pure.op = "extractConfigProperties"

\* C17: the classifier puts every key of a property bag that is not in the
\* list of ignored keys, under its base name, in exactly one of its three
\* mappings: target in the special one, fov, alpha, beta and radius in the
\* animatable one, and every other key, known or not, in the non-animatable one.
C17_ClassifierPartitions ==
    Classified =>
      \A i \in 1..Len(pure.prop) :
        ~Includes(CAMERA_PROPERTIES_TO_IGNORE_DURING_EXTRACTION, pure.prop[i][1]) =>
          MappingsWith(pure.out, BaseName(pure.prop[i][1])) =
            IF BaseName(pure.prop[i][1]) = K("target") THEN { "special" }
            ELSE IF BaseName(pure.prop[i][1]) \in { K("fov"), K("alpha"), K("beta"), K("radius") }
                 THEN { "animatable" }
            ELSE { "nonAnimatable" }

\* C18: none of the meta-keys that control the update itself (attachControl,
\* enable, animationDuration, cameraAnimationConfig, autoRotationBehavior,
\* framingBehavior, type, minimizeRotation) is in any mapping of the
\* classifier, so none is written on the camera.
C18_NoMetaKeyClassified ==
    Classified => \A key \in MetaKeys : MappingsWith(pure.out, key) = {}

\* C19: the last frame is one frame at least for every duration, given or
\* not, and the duration times 60 for a positive duration.
C19_LastFrameAtLeastOne ==
    pure.op = "lastFrame" =>
      /\ pure.lastFrame >= TicksPerSecond
      /\ pure.animationDuration > 0 => pure.lastFrame = pure.animationDuration * 60

\* A step that is an updateCameras call.
CallStep == Len(calls') = Len(calls) + 1

\* C20: an updateCameras call with a non-empty configuration removes the
\* default camera, whatever its entries are (all of an unsupported type, all
\* disabled): the camera is disposed, out of the scene and no longer the
\* camera of its name; a call with an empty configuration leaves it.
C20_DefaultCameraRemovedFirst ==
    [][ CallStep =>
          IF Len(calls'[Len(calls')].cfg) > 0
          THEN Tracked(CAMERA_DEFAULT_NAME) =>
                 /\ cameras'[cameraMap[CAMERA_DEFAULT_NAME]].isDisposed
                 /\ ~Includes(sceneCameras', cameraMap[CAMERA_DEFAULT_NAME])
                 /\ ~SameEntry(cameraMap, cameraMap', CAMERA_DEFAULT_NAME)
          ELSE /\ SameEntry(cameraMap, cameraMap', CAMERA_DEFAULT_NAME)
               /\ cameras' = cameras
               /\ sceneCameras' = sceneCameras ]_vars
C20_Witness ==
    /\ ~disposed
    /\ Len(calls) = 1 /\ calls[1].cfgId = 3 /\ calls[1].pc = "done"
    /\ ~EnableOf(calls[1].cfg[1])
    /\ cameras[1].name = CAMERA_DEFAULT_NAME /\ cameras[1].isDisposed
    /\ ~Tracked(CAMERA_DEFAULT_NAME)
    /\ sceneCameras = << >>

RECURSIVE AnimatableOrder(_, _, _)
\* The animatable properties (fov, alpha, beta, radius) a property bag
\* configures, each once, in the order the bag first names them; a key in
\* degrees counts under its base name.
AnimatableOrder(prop, i, acc) ==
    IF i > Len(prop) THEN acc
    ELSE IF BaseName(prop[i][1]) \in (Animatable \ { K("target") })
            /\ ~Includes(acc, BaseName(prop[i][1]))
         THEN AnimatableOrder(prop, i + 1, Append(acc, BaseName(prop[i][1])))
         ELSE AnimatableOrder(prop, i + 1, acc)

\* C21: the animation list a cycle builds starts with one 'target' animation
\* (to the configured target, or to the zero vector when none is configured),
\* followed by one animation per configured animatable property in
\* configuration order; a cycle without a duration leaves each animation's
\* final value on the camera.
C21_TargetFirstThenConfigurationOrder ==
    hist.built.name # "" =>
      LET b == hist.built
          want == AnimatableOrder(b.prop, 1, << >>)
      IN  /\ Len(b.anims) = 1 + Len(want)
          /\ b.anims[1].targetProperty = K("target")
          /\ b.anims[1].keys[2].value = GetOr(b.prop, K("target"), 0)
          /\ \A i \in 1..Len(want) : b.anims[i + 1].targetProperty = want[i]
          /\ b.direct =>
               \A i \in 1..Len(b.anims) :
                 b.after[b.anims[i].targetProperty] = b.anims[i].keys[2].value
C21_Witness ==
    /\ hist.built.name = "A" /\ hist.built.direct
    /\ hist.built.prop[4][1] = K("target")
    /\ Len(hist.built.anims) = 3
    /\ hist.built.anims[2].targetProperty = K("radius")
    /\ hist.built.anims[3].targetProperty = K("alpha")
    /\ hist.built.after[K("target")] = 2
    /\ hist.built.after[K("alpha")] = 40

\* The names of the arcRotateCamera entries among the first upto entries of a
\* configuration, in the order given.
SupportedNames(cfg, upto) ==
    LET sel == SelectSeq(SubSeq(cfg, 1, upto), LAMBDA e : ~Unsupported(e))
    IN  [ i \in 1..Len(sel) |-> sel[i].name ]

\* C22: a call updates the cameras of its entries in the order given: the
\* updates it has begun are those of the entries up to its position, the
\* update of a further entry begins only when the call is not waiting for a
\* playback and none of its playbacks is running, and the call resolves only
\* from there, with all its entries behind it.
C22_EntriesOneAfterAnother ==
    /\ [](\A c \in 1..Len(calls) :
            LET call == calls[c]
            IN  /\ call.begun =
                     SupportedNames(call.cfg,
                                    IF call.pc = "play" THEN call.pos ELSE call.pos - 1)
                /\ call.pc = "play" => call.pos <= Len(call.cfg)
                /\ call.pc = "done" => (call.pos > Len(call.cfg) /\ c \notin running))
    /\ [][ \A c \in 1..Len(calls) :
             /\ Len(calls'[c].begun) > Len(calls[c].begun) =>
                  /\ calls[c].pc = "yield"
                  /\ c \notin running
                  /\ Len(calls'[c].begun) = Len(calls[c].begun) + 1
             /\ (calls[c].pc # "done" /\ calls'[c].pc = "done") =>
                  (calls[c].pc = "yield" /\ c \notin running) ]_vars
C22_Witness ==
    /\ Len(calls) = 1
    /\ calls[1].cfg = [CfgTwo EXCEPT ![1].prop = SetKey(SetKey(@, K("animationDuration"), 0),
                                                        K("enable"), TRUE)]
    /\ calls[1].begun = << "A", "B" >>
    /\ calls[1].pc = "done"
    /\ hist.playbacks = 1
    /\ Tracked("A") /\ Tracked("B")

\* Call c has in this step run the post-animation step of a cycle that was
\* still current (lines 286-313), at once or after its playback.
PostStep(c) ==
    /\ hist'.posts = hist.posts + 1
    /\ c \in 1..Len(calls')
    /\ calls'[c].pos > 1
    /\ calls'[c].local.cam # NoCamera
    /\ IF c \in 1..Len(calls)
       THEN calls'[c].pos = calls[c].pos + 1
       ELSE TRUE

\* C23: when a cycle that is still current finishes, each of the six limit
\* properties has the value the cycle's configuration gives for it, if it
\* gives one, and otherwise the value the camera had when the cycle saved its
\* limits.
C23_LimitsConfiguredOrRestored ==
    [][ \A c \in 1..Len(calls') :
          PostStep(c) =>
            LET L == calls'[c].local
                prop == calls'[c].given[calls'[c].pos - 1].prop
            IN  \A i \in 1..Len(ARC_ROTATE_CAMERA_LIMIT_PROPERTIES) :
                  LET k == ARC_ROTATE_CAMERA_LIMIT_PROPERTIES[i]
                  IN  CamGet(cameras'[L.cam], k) =
                        IF HasKey(prop, k) /\ Get(prop, k) # Undefined
                        THEN Get(prop, k)
                        ELSE Get(L.oldCameraLimits, k) ]_vars

\* Call c has awaited the playback of a cycle for name n and gone on.
Awaited(c, n) ==
    \E i \in 1..Len(calls[c].given) :
      /\ i < calls[c].pos
      /\ calls[c].given[i].name = n
      /\ ~Unsupported(calls[c].given[i])
      /\ EnableOf(calls[c].given[i])
      /\ GetOr(calls[c].given[i].prop, K("animationDuration"), 0) > 0

\* No updateConfig after call c has named an animationDuration for n.
NoDurationSince(c, n) ==
    \A d \in (c + 1)..Len(calls) :
      \A i \in 1..Len(ConfigTable[calls[d].cfgId]) :
        ConfigTable[calls[d].cfgId][i].name = n =>
          ~HasKey(ConfigTable[calls[d].cfgId][i].prop, K("animationDuration"))

\* C24: once a cycle with a duration has awaited its playback, the stored
\* animationDuration of that camera's entry is 0 until a caller names a
\* duration again, so that an update without a duration starts no playback.
C24_StoredDurationReset ==
    \A c \in 1..Len(calls) : \A n \in Names :
      (Awaited(c, n) /\ NoDurationSince(c, n)) =>
        /\ EntryIndex(StoredConfig, n) # 0
        /\ GetOr(StoredConfig[EntryIndex(StoredConfig, n)].prop, K("animationDuration"), 0) = 0

\* C25: at every moment a live (not disposed) camera has at most one
\* first-interaction observer of the configurator attached.
C25_AtMostOneObserverPerCamera ==
    \A id \in 1..Len(cameras) :
      ~cameras[id].isDisposed => Cardinality(cameras[id].observers) <= 1

\* C26: the listeners of the first camera interaction are called only when
\* the user has changed the view: with no move of the user, the view changes
\* that updateCameras produces never make the configurator notify them.
C26_FiredOnlyByUser == interaction.fired > 0 => interaction.moves > 0

\* C27: every updateCameras call resolves in the end, whatever happens while
\* it waits for a playback (a newer call for the same name, a disable of the
\* name, dispose()), given that playbacks end and continuations are run.
C27_EveryCallResolves ==
    \A c \in 1..MaxLiveCalls :
      (Len(calls) >= c) ~> (Len(calls) >= c /\ calls[c].pc = "done")
C27_Witness ==
    /\ Len(calls) = 2
    /\ calls[1].cfgId = 6 /\ calls[2].cfgId = 3
    /\ 1 \in calls[2].overlap
    /\ calls[1].begun = << "A", "B" >>
    /\ AllDone

\* C28: after dispose() a call that was in flight when dispose() ran (here
\* the only call there has been) creates no camera object and adds no
\* per-name record as it goes on.
C28_NothingCreatedAfterDispose ==
    [][ (disposed /\ Len(calls) = 1 /\ Len(calls') = 1) =>
          /\ Len(cameras') = Len(cameras)
          /\ DOMAIN cameraMap' \subseteq DOMAIN cameraMap
          /\ DOMAIN latestUpdateIndexMap' \subseteq DOMAIN latestUpdateIndexMap
          /\ DOMAIN firstCameraInteractionMap' \subseteq DOMAIN firstCameraInteractionMap
          /\ DOMAIN cameraViewMatrixMap' \subseteq DOMAIN cameraViewMatrixMap
          /\ DOMAIN firstCameraInteractionObserverMap' \subseteq
               DOMAIN firstCameraInteractionObserverMap ]_vars

\* Every call is for camera n alone, none disables it, all have resolved and
\* dispose() was not called: n's camera is the one the first call created.
OnlyUpdatesOf(n) ==
    /\ ~disposed
    /\ Len(calls) > 0
    /\ AllDone
    /\ \A c \in 1..Len(calls) :
         /\ Len(calls[c].given) = 1
         /\ calls[c].given[1].name = n
         /\ ~Unsupported(calls[c].given[1])
         /\ EnableOf(calls[c].given[1])

\* C29: after all updateCameras calls for one camera have resolved, whether
\* or not they overlapped, every limit that none of them configured has the
\* value it had before the first of them cleared it (the value the camera was
\* created with).
C29_UnconfiguredLimitsPutBack ==
    \A n \in Names :
      OnlyUpdatesOf(n) =>
        \A i \in 1..Len(ARC_ROTATE_CAMERA_LIMIT_PROPERTIES) :
          LET k == ARC_ROTATE_CAMERA_LIMIT_PROPERTIES[i]
          IN  (\A c \in 1..Len(calls) : ~HasKey(calls[c].given[1].prop, k)) =>
                CamGet(CameraOf(n), k) = CamGet(NewArcRotateCamera(n), k)

\* C30: a cycle that goes on after its playback, its camera object disposed
\* in the meantime, leaves that object as it is (no property written, the
\* animation list not cleared, no observer added) and leaves the registered
\* observers of the names as they are.
C30_DisposedCameraLeftAlone ==
    [][ \A c \in 1..Len(calls) :
          (/\ calls[c].pc = "play"
           /\ calls'[c].pc # "play"
           /\ cameras[calls[c].cam].isDisposed) =>
            /\ cameras'[calls[c].cam] = cameras[calls[c].cam]
            /\ firstCameraInteractionObserverMap' = firstCameraInteractionObserverMap ]_vars

====
